---- MODULE Spec2Model ----
(***************************************************************************)
(* ByeCal (src/app.py): a Flask application with registration and login,   *)
(* a BMI / daily-calorie calculator, a food search backed by OpenFoodFacts *)
(* and a consumption ledger.  The database tables are the variables users, *)
(* registros_imc, alimentos and consumos; each route handler is one        *)
(* action.                                                                 *)
(*                                                                         *)
(* Representation.  A Python str is a sequence of one-character strings,   *)
(* so that strip() and lower() are computed.  A length (metres, two        *)
(* decimals) is the integer number of centimetres, a weight is an integer  *)
(* number of kilograms, a BMI is an integer number of hundredths.  The     *)
(* arithmetic is exact; on the inputs used here it agrees with the IEEE    *)
(* doubles of the program.                                                 *)
(***************************************************************************)
EXTENDS Integers, Sequences, FiniteSets, TLC

VARIABLES users, registros_imc, alimentos, consumos, session, pending, now, resp

vars == <<users, registros_imc, alimentos, consumos, session, pending, now, resp>>

(***************************************************************************)
(* Bounds of the model.                                                    *)
(***************************************************************************)
MaxUsers == 2
MaxRegistros == 2
MaxAlimentos == 2
MaxConsumos == 2
MaxNow == 2

(***************************************************************************)
(* Python values.                                                          *)
(***************************************************************************)
\* None / SQL NULL in a string position
Null == <<"<None>">>

\* the session has no 'user_id' key
NoUser == 0

\* no register request of the client is between its SELECT and its INSERT
NoPending == [none |-> TRUE]

UpperAlpha == <<"A","B","C","D","E","F","G","H","I","J","K","L","M","N","O","P","Q","R","S","T","U","V","W","X","Y","Z">>

LowerAlpha == <<"a","b","c","d","e","f","g","h","i","j","k","l","m","n","o","p","q","r","s","t","u","v","w","x","y","z">>

LowerChar(ch) ==
    IF \E i \in 1..26 : UpperAlpha[i] = ch
    THEN LowerAlpha[CHOOSE i \in 1..26 : UpperAlpha[i] = ch]
    ELSE ch

\* str.lower()
lower(s) == [i \in 1..Len(s) |-> LowerChar(s[i])]

IsSpace(ch) == ch = " "

RECURSIVE LStrip(_)
LStrip(s) == IF s # <<>> /\ IsSpace(Head(s)) THEN LStrip(Tail(s)) ELSE s

RECURSIVE RStrip(_)
RStrip(s) == IF s # <<>> /\ IsSpace(s[Len(s)]) THEN RStrip(SubSeq(s, 1, Len(s) - 1)) ELSE s

\* str.strip()
strip(s) == RStrip(LStrip(s))

\* Python truthiness of an optional string, and `x or d`
Truthy(s) == s # Null /\ s # <<>>

Or(s, d) == IF Truthy(s) THEN s ELSE d

\* request.form.get(key, '') on a form that is a function from keys to values
FormGet(form, key, default) == IF key \in DOMAIN form THEN form[key] ELSE default

(***************************************************************************)
(* flask_bcrypt.  The salt is left out: a hash verifies exactly the        *)
(* password it was generated from.                                         *)
(***************************************************************************)
generate_password_hash(password) == <<"$2b$">> \o password

check_password_hash(hash, password) == hash = generate_password_hash(password)

(***************************************************************************)
(* datetime.strptime(s, '%Y-%m-%d').date().  The text of a date is the     *)
(* sequence of its numeric fields; anything that is not three fields of a  *)
(* calendar date raises ValueError.                                        *)
(***************************************************************************)
ValueError == <<0, 0, 0>>

IsLeap(y) == (y % 4 = 0 /\ y % 100 # 0) \/ y % 400 = 0

DaysInMonth(y, m) ==
    IF m = 2 THEN (IF IsLeap(y) THEN 29 ELSE 28)
    ELSE IF m \in {4, 6, 9, 11} THEN 30 ELSE 31

strptime(s) ==
    IF /\ Len(s) = 3
       /\ s[1] \in 1..9999
       /\ s[2] \in 1..12
       /\ s[3] >= 1
       /\ s[3] <= DaysInMonth(s[1], s[2])
    THEN s
    ELSE ValueError

(***************************************************************************)
(* The clock.  now counts half days; the calendar date of an instant is    *)
(* its day, and date.today() / datetime.utcnow().date() read the same      *)
(* clock.                                                                  *)
(***************************************************************************)
\* db.func.date(fecha_hora), datetime.date(): the date part of an instant
DateOf(t) == t \div 2

\* the calendar date (year, month, day) of a date
Calendar(d) == <<2024, 6, 14 + d>>

(***************************************************************************)
(* Queries.                                                                *)
(***************************************************************************)
Min(S) == CHOOSE x \in S : \A y \in S : x <= y

Max(S) == CHOOSE x \in S : \A y \in S : x >= y

\* User.query.filter_by(correo=correo).first(): the id of the row, or NoUser
UserByCorreo(correo) ==
    LET ids == {i \in 1..Len(users) : users[i].correo = correo}
    IN  IF ids = {} THEN NoUser ELSE Min(ids)

\* the UNIQUE constraint of User.correo, checked by the INSERT
UniqueCorreoViolated(correo) == \E i \in 1..Len(users) : users[i].correo = correo

Clients == {"c1", "c2"}

NoReq == [none |-> TRUE]

NoData == [none |-> TRUE]

Response(op, c, req, status, body, data) ==
    [op |-> op, c |-> c, user |-> session[c], req |-> req,
     status |-> status, body |-> body, data |-> data]

(***************************************************************************)
(* POST /login                                                             *)
(***************************************************************************)
\* Authenticate with a fault: the password is not verified
Authenticate_sin_password(correo, password) == UserByCorreo(correo)

\* lines 167-168: the user the credentials belong to, or NoUser
Authenticate(correo, password) ==
    LET user == UserByCorreo(correo)
    IN  IF user # NoUser /\ check_password_hash(users[user].password, password)
        THEN user ELSE NoUser

login(c, form) ==
    LET correo == lower(strip(FormGet(form, "correo", <<>>)))
        password == FormGet(form, "password", <<>>)
        user == Authenticate(correo, password)
    IN  /\ IF user # NoUser
           THEN /\ session' = [session EXCEPT ![c] = user]
                /\ resp' = Response("login", c, form, "redirect", "dashboard", NoData)
           ELSE /\ session' = session
                /\ resp' = Response("login", c, form, "200",
                                    "Correo o contrasena incorrectos.", NoData)
        /\ UNCHANGED <<users, registros_imc, alimentos, consumos, pending, now>>

(***************************************************************************)
(* GET /logout                                                             *)
(***************************************************************************)
logout(c) ==
    /\ session' = [session EXCEPT ![c] = NoUser]
    /\ resp' = Response("logout", c, NoReq, "redirect", "login", NoData)
    /\ UNCHANGED <<users, registros_imc, alimentos, consumos, pending, now>>

(***************************************************************************)
(* POST /register.  The handler reads the table (line 193) and writes it   *)
(* (line 210) in two database statements; requests of other clients run    *)
(* between the two.  register_check is lines 181-208, register_commit is   *)
(* lines 209-216; NewUser is the row the handler builds from the form.     *)
(***************************************************************************)
NewUser(form) ==
    [nombre |-> strip(FormGet(form, "nombre", <<>>)),
     fecha_nacimiento |-> strptime(FormGet(form, "fecha_nacimiento", <<>>)),
     sexo |-> strip(FormGet(form, "sexo", <<>>)),
     objetivo |-> Or(strip(FormGet(form, "objetivo", <<>>)), Null),
     actividad |-> strip(FormGet(form, "actividad", <<>>)),
     correo |-> lower(strip(FormGet(form, "correo", <<>>))),
     password |-> generate_password_hash(FormGet(form, "password", <<>>))]

MissingField(form) ==
    \/ strip(FormGet(form, "nombre", <<>>)) = <<>>
    \/ FormGet(form, "fecha_nacimiento", <<>>) = <<>>
    \/ strip(FormGet(form, "sexo", <<>>)) = <<>>
    \/ lower(strip(FormGet(form, "correo", <<>>))) = <<>>
    \/ FormGet(form, "password", <<>>) = <<>>
    \/ strip(FormGet(form, "actividad", <<>>)) = <<>>

register_check(c, form) ==
    /\ pending[c] = NoPending
    /\ IF MissingField(form)
       THEN /\ resp' = Response("register", c, form, "200",
                                "Completa todos los campos obligatorios.", NoData)
            /\ pending' = pending
       ELSE IF UserByCorreo(lower(strip(FormGet(form, "correo", <<>>)))) # NoUser
       THEN /\ resp' = Response("register", c, form, "200",
                                "Ya existe una cuenta con ese correo.", NoData)
            /\ pending' = pending
       ELSE IF strptime(FormGet(form, "fecha_nacimiento", <<>>)) = ValueError
       THEN /\ resp' = Response("register", c, form, "200",
                                "Formato de fecha invalido. Usa AAAA-MM-DD.", NoData)
            /\ pending' = pending
       ELSE /\ Len(users) + Cardinality({d \in Clients : pending[d] # NoPending}) < MaxUsers
            /\ pending' = [pending EXCEPT ![c] = [user |-> NewUser(form), form |-> form]]
            /\ resp' = Response("register_check", c, form, "", "", NoData)
    /\ UNCHANGED <<users, registros_imc, alimentos, consumos, session, now>>

register_commit(c) ==
    /\ pending[c] # NoPending
    /\ IF UniqueCorreoViolated(pending[c].user.correo)
       THEN /\ users' = users
            /\ resp' = Response("register", c, pending[c].form, "200",
                                "Ocurrio un error creando la cuenta: IntegrityError", NoData)
       ELSE /\ users' = Append(users, pending[c].user)
            /\ resp' = Response("register", c, pending[c].form, "redirect", "login", NoData)
    /\ pending' = [pending EXCEPT ![c] = NoPending]
    /\ UNCHANGED <<registros_imc, alimentos, consumos, session, now>>

(***************************************************************************)
(* Helpers of the calculator.                                              *)
(***************************************************************************)
\* round(): n/d to the nearest integer, a tie to the even one (d > 0)
Round(n, d) ==
    LET q == n \div d
        r == n - q * d
    IN  IF 2 * r < d THEN q
        ELSE IF 2 * r > d THEN q + 1
        ELSE IF q % 2 = 0 THEN q ELSE q + 1

\* imc in hundredths
clasificar_imc(imc) ==
    IF imc < 1850 THEN "Bajo peso"
    ELSE IF 1850 <= imc /\ imc < 2500 THEN "Peso normal"
    ELSE IF 2500 <= imc /\ imc < 3000 THEN "Sobrepeso"
    ELSE "Obesidad"

s_masculino == <<"m","a","s","c","u","l","i","n","o">>

s_m == <<"m">>

s_sedentario == <<"s","e","d","e","n","t","a","r","i","o">>

s_ligero == <<"l","i","g","e","r","o">>

s_moderado == <<"m","o","d","e","r","a","d","o">>

s_intenso == <<"i","n","t","e","n","s","o">>

s_muy_intenso == <<"m","u","y"," ","i","n","t","e","n","s","o">>

s_ganar_peso == <<"g","a","n","a","r"," ","p","e","s","o">>

s_perder_peso == <<"p","e","r","d","e","r"," ","p","e","s","o">>

\* factores with a fault: the factor of "moderado" is mistyped
factores_moderado_errado(key) ==
    IF key = s_sedentario THEN 1200
    ELSE IF key = s_ligero THEN 1375
    ELSE IF key = s_moderado THEN 1500
    ELSE IF key = s_intenso THEN 1725
    ELSE IF key = s_muy_intenso THEN 1900
    ELSE 1200

\* factores.get(key, 1.2), in thousandths
factores(key) ==
    IF key = s_sedentario THEN 1200
    ELSE IF key = s_ligero THEN 1375
    ELSE IF key = s_moderado THEN 1550
    ELSE IF key = s_intenso THEN 1725
    ELSE IF key = s_muy_intenso THEN 1900
    ELSE 1200

\* tmb in quarters of a kcal, mantenimiento in 1/4000 kcal
calcular_calorias(user, edad, peso, altura) ==
    LET altura_cm == altura
        sexo == lower(strip(Or(user.sexo, <<>>)))
        tmb == IF sexo = s_masculino \/ sexo = s_m
               THEN 40 * peso + 25 * altura_cm - 20 * edad + 20
               ELSE 40 * peso + 25 * altura_cm - 20 * edad - 644
        actividad_key == lower(strip(Or(user.actividad, s_sedentario)))
        factor == factores(actividad_key)
        mantenimiento == tmb * factor
        objetivo == lower(strip(Or(user.objetivo, <<>>)))
    IN  IF objetivo = s_ganar_peso THEN Round(mantenimiento + 500 * 4000, 4000)
        ELSE IF objetivo = s_perder_peso THEN Round(mantenimiento - 500 * 4000, 4000)
        ELSE Round(mantenimiento, 4000)

\* hoy.year - nacimiento.year - ((hoy.month, hoy.day) < (nacimiento.month, nacimiento.day))
Edad(hoy, nacimiento) ==
    hoy[1] - nacimiento[1]
      - (IF hoy[2] < nacimiento[2] \/ (hoy[2] = nacimiento[2] /\ hoy[3] < nacimiento[3])
         THEN 1 ELSE 0)

\* RegistroIMC.query.filter_by(user_id=u).order_by(RegistroIMC.id.desc()).first()
UltimoRegistro(u) ==
    LET ids == {i \in 1..Len(registros_imc) : registros_imc[i].user_id = u}
    IN  IF ids = {} THEN <<>> ELSE <<registros_imc[Max(ids)]>>

Resultado(r) == [imc |-> r.imc, clasificacion |-> r.clasificacion, calorias |-> r.calorias]

\* the wrapper of login_required: the answer to a request without 'user_id'
RedirectLogin(op, c, req) ==
    /\ resp' = Response(op, c, req, "redirect", "login", NoData)
    /\ UNCHANGED <<users, registros_imc, alimentos, consumos, session, pending, now>>

\* SetObjetivo with a fault: the new goal resets the activity level
SetObjetivo_y_actividad(u, objetivo) ==
    [users EXCEPT ![u].objetivo = objetivo, ![u].actividad = <<"S","e","d","e","n","t","a","r","i","o">>]

\* user.objetivo = nuevo_objetivo (line 263)
SetObjetivo(u, objetivo) == [users EXCEPT ![u].objetivo = objetivo]

\* user.actividad = nueva_actividad (line 270)
SetActividad(u, actividad) == [users EXCEPT ![u].actividad = actividad]

\* the row of lines 227-230 and 236-255, for user u at instant t
NewRegistro(u, t, altura, peso) ==
    LET user == users[u]
        edad == Edad(Calendar(DateOf(t)), user.fecha_nacimiento)
        imc == Round(peso * 1000000, altura * altura)
    IN  [altura |-> altura, peso |-> peso, imc |-> imc,
         clasificacion |-> clasificar_imc(imc),
         calorias |-> calcular_calorias(user, edad, peso, altura),
         user_id |-> u]

(***************************************************************************)
(* POST /calculadora.  A number of the form is [kind |-> "num", v |-> n];  *)
(* [kind |-> "text"] is text float() rejects, [kind |-> "nan"] is "nan",   *)
(* which float() accepts and round() rejects.                              *)
(***************************************************************************)
calculadora_post(c, form) ==
    IF session[c] = NoUser THEN RedirectLogin("calculadora", c, form)
    ELSE
    LET u == session[c]
    IN  IF "altura" \in DOMAIN form /\ "peso" \in DOMAIN form
        THEN IF form.altura.kind = "text" \/ form.peso.kind = "text"
             THEN /\ resp' = Response("calculadora", c, form, "200",
                                      "Error al calcular IMC: ValueError", NoData)
                  /\ UNCHANGED <<users, registros_imc, alimentos, consumos, session, pending, now>>
             ELSE IF form.altura.kind = "num" /\ form.altura.v = 0
             THEN /\ resp' = Response("calculadora", c, form, "200",
                                      "Error al calcular IMC: ZeroDivisionError", NoData)
                  /\ UNCHANGED <<users, registros_imc, alimentos, consumos, session, pending, now>>
             ELSE IF form.altura.kind = "nan" \/ form.peso.kind = "nan"
             THEN /\ resp' = Response("calculadora", c, form, "200",
                                      "Error al calcular IMC: ValueError", NoData)
                  /\ UNCHANGED <<users, registros_imc, alimentos, consumos, session, pending, now>>
             ELSE LET registro == NewRegistro(u, now, form.altura.v, form.peso.v)
                  IN  /\ Len(registros_imc) < MaxRegistros
                      /\ registros_imc' = Append(registros_imc, registro)
                      /\ resp' = Response("calculadora", c, form, "200", "", Resultado(registro))
                      /\ UNCHANGED <<users, alimentos, consumos, session, pending, now>>
        ELSE IF "objetivo" \in DOMAIN form
        THEN /\ users' = IF Truthy(form.objetivo)
                         THEN SetObjetivo(u, form.objetivo)
                         ELSE users
             /\ resp' = Response("calculadora", c, form, "200", "", NoData)
             /\ UNCHANGED <<registros_imc, alimentos, consumos, session, pending, now>>
        ELSE IF "actividad" \in DOMAIN form
        THEN /\ users' = IF Truthy(form.actividad)
                         THEN SetActividad(u, form.actividad)
                         ELSE users
             /\ resp' = Response("calculadora", c, form, "200", "", NoData)
             /\ UNCHANGED <<registros_imc, alimentos, consumos, session, pending, now>>
        ELSE /\ resp' = Response("calculadora", c, form, "200", "", NoData)
             /\ UNCHANGED <<users, registros_imc, alimentos, consumos, session, pending, now>>

(***************************************************************************)
(* GET /dashboard                                                          *)
(***************************************************************************)
dashboard(c) ==
    IF session[c] = NoUser THEN RedirectLogin("dashboard", c, NoReq)
    ELSE
    LET registro == UltimoRegistro(session[c])
    IN  /\ resp' = Response("dashboard", c, NoReq, "200", "",
                            [user |-> session[c], registro |-> registro])
        /\ UNCHANGED <<users, registros_imc, alimentos, consumos, session, pending, now>>

\* time passes
Tick ==
    /\ now < MaxNow
    /\ now' = now + 1
    /\ resp' = [op |-> "tick", c |-> "", user |-> NoUser, req |-> NoReq,
                status |-> "", body |-> "", data |-> NoData]
    /\ UNCHANGED <<users, registros_imc, alimentos, consumos, session, pending>>

(***************************************************************************)
(* The food search.  The reply of OpenFoodFacts is an input of the         *)
(* request: [kind |-> "exception"] when requests.get or response.json()    *)
(* raises, else [kind |-> "response", ok |-> ..., json |-> ...] where a    *)
(* JSON object is a function from its keys.                                *)
(***************************************************************************)
EmptyDict == <<>>

\* dict.get(key, default)
Get(d, key, default) == IF key \in DOMAIN d THEN d[key] ELSE default

HistorialLimit == 10

RECURSIVE DescTake(_, _)
\* the ids of S, greatest first, at most n of them
DescTake(S, n) ==
    IF S = {} \/ n = 0 THEN <<>>
    ELSE <<Max(S)>> \o DescTake(S \ {Max(S)}, n - 1)

\* Alimento.query.filter_by(user_id=u).order_by(Alimento.id.desc()).limit(10).all()
Historial(tabla, u) ==
    DescTake({i \in 1..Len(tabla) : tabla[i].user_id = u}, HistorialLimit)

\* Products with a fault: response.ok is not looked at
Products_sin_ok(reply) == Get(reply.json, "products", <<>>)

\* lines 301-302: data.get('products') of a reply that is a response
Products(reply) ==
    LET data == IF reply.ok THEN reply.json ELSE EmptyDict
    IN  Get(data, "products", <<>>)

\* the row of lines 303-325, from the first product of the reply
NewAlimento(producto, nombre, u) ==
    LET nutr == Get(producto, "nutriments", EmptyDict)
    IN  [nombre |-> Or(Get(producto, "product_name", nombre), nombre),
         calorias |-> Get(nutr, "energy-kcal_100g", 0),
         proteinas |-> Get(nutr, "proteins_100g", 0),
         grasas |-> Get(nutr, "fat_100g", 0),
         carbohidratos |-> Get(nutr, "carbohydrates_100g", 0),
         user_id |-> u]

(***************************************************************************)
(* POST /alimentos                                                         *)
(***************************************************************************)
alimentos_post(c, form, reply) ==
    IF session[c] = NoUser THEN RedirectLogin("alimentos", c, [form |-> form, reply |-> reply])
    ELSE
    LET u == session[c]
        nombre == strip(FormGet(form, "nombre", <<>>))
        req == [form |-> form, reply |-> reply]
        products == IF reply.kind = "response" THEN Products(reply) ELSE <<>>
    IN  IF nombre = <<>>
        THEN /\ resp' = Response("alimentos", c, req, "200", "",
                                 [historial |-> Historial(alimentos, u)])
             /\ UNCHANGED <<users, registros_imc, alimentos, consumos, session, pending, now>>
        ELSE IF reply.kind = "exception"
        THEN /\ resp' = Response("alimentos", c, req, "200",
                                 "No se pudo consultar OpenFoodFacts. Intenta mas tarde.",
                                 [historial |-> Historial(alimentos, u)])
             /\ UNCHANGED <<users, registros_imc, alimentos, consumos, session, pending, now>>
        ELSE IF products = <<>>
        THEN /\ resp' = Response("alimentos", c, req, "200",
                                 "No se encontro informacion para ese alimento.",
                                 [historial |-> Historial(alimentos, u)])
             /\ UNCHANGED <<users, registros_imc, alimentos, consumos, session, pending, now>>
        ELSE LET nuevo == NewAlimento(products[1], nombre, u)
             IN  /\ Len(alimentos) < MaxAlimentos
                 /\ alimentos' = Append(alimentos, nuevo)
                 /\ resp' = Response("alimentos", c, req, "200", "",
                                     [info |-> nuevo,
                                      historial |-> Historial(Append(alimentos, nuevo), u)])
                 /\ UNCHANGED <<users, registros_imc, consumos, session, pending, now>>

(***************************************************************************)
(* GET /alimentos                                                          *)
(***************************************************************************)
alimentos_get(c) ==
    IF session[c] = NoUser THEN RedirectLogin("alimentos_get", c, NoReq)
    ELSE /\ resp' = Response("alimentos_get", c, NoReq, "200", "",
                             [historial |-> Historial(alimentos, session[c])])
         /\ UNCHANGED <<users, registros_imc, alimentos, consumos, session, pending, now>>

(***************************************************************************)
(* POST /consumos/agregar.  form.get('alimento_id', type=int) is None when *)
(* the key is missing, and `not alimento_id` holds of None and of 0 alike: *)
(* a missing id reads as 0.  The row id of a new Consumo is SQLite's       *)
(* max(rowid) + 1.                                                         *)
(***************************************************************************)
\* AlimentoDe with a fault: the owner is not part of the filter
AlimentoDe_cualquiera(alimento_id, u) == {i \in 1..Len(alimentos) : i = alimento_id}

\* Alimento.query.filter_by(id=alimento_id, user_id=u) (line 392): the ids found
AlimentoDe(alimento_id, u) ==
    {i \in 1..Len(alimentos) : i = alimento_id /\ alimentos[i].user_id = u}

NextConsumoId == IF consumos = {} THEN 1 ELSE Max({e.id : e \in consumos}) + 1

PorcionDefault == <<"1","0","0"," ","g">>

agregar_consumo(c, form) ==
    IF session[c] = NoUser THEN RedirectLogin("agregar_consumo", c, form)
    ELSE
    LET u == session[c]
        alimento_id == Get(form, "alimento_id", 0)
        porcion == Or(Get(form, "porcion", Null), PorcionDefault)
        found == AlimentoDe(alimento_id, u)
    IN  IF alimento_id = 0
        THEN /\ resp' = Response("agregar_consumo", c, form, "400",
                                 "No se selecciono alimento", NoData)
             /\ UNCHANGED <<users, registros_imc, alimentos, consumos, session, pending, now>>
        ELSE IF found = {}
        THEN /\ resp' = Response("agregar_consumo", c, form, "404",
                                 "Alimento no encontrado", NoData)
             /\ UNCHANGED <<users, registros_imc, alimentos, consumos, session, pending, now>>
        ELSE LET alimento == alimentos[Min(found)]
                 nuevo == [id |-> NextConsumoId,
                           nombre |-> alimento.nombre,
                           calorias |-> alimento.calorias,
                           proteinas |-> alimento.proteinas,
                           grasas |-> alimento.grasas,
                           carbohidratos |-> alimento.carbohidratos,
                           porcion |-> porcion,
                           user_id |-> u,
                           fecha_hora |-> now]
             IN  /\ Cardinality(consumos) < MaxConsumos
                 /\ consumos' = consumos \cup {nuevo}
                 /\ resp' = Response("agregar_consumo", c, form, "200", "agregado con exito",
                                     [nombre |-> alimento.nombre,
                                      calorias |-> alimento.calorias,
                                      porcion |-> porcion])
                 /\ UNCHANGED <<users, registros_imc, alimentos, session, pending, now>>

(***************************************************************************)
(* POST /eliminar_consumo/<int:consumo_id>.  The route has no              *)
(* login_required: session["user_id"] raises KeyError without a session.   *)
(***************************************************************************)
\* ConsumoDe with a fault: the owner is not part of the filter
ConsumoDe_cualquiera(consumo_id, u) == {e \in consumos : e.id = consumo_id}

\* Consumo.query.filter_by(id=consumo_id, user_id=u) (line 338): the rows found
ConsumoDe(consumo_id, u) == {e \in consumos : e.id = consumo_id /\ e.user_id = u}

eliminar_consumo(c, consumo_id) ==
    LET req == [consumo_id |-> consumo_id]
    IN  IF session[c] = NoUser
        THEN /\ resp' = Response("eliminar_consumo", c, req, "500", "KeyError: 'user_id'", NoData)
             /\ UNCHANGED <<users, registros_imc, alimentos, consumos, session, pending, now>>
        ELSE LET consumo == ConsumoDe(consumo_id, session[c])
             IN  /\ consumos' = consumos \ consumo
                 /\ resp' = Response("eliminar_consumo", c, req, "redirect",
                                     "agregar_alimentos", NoData)
                 /\ UNCHANGED <<users, registros_imc, alimentos, session, pending, now>>

(***************************************************************************)
(* GET /alimentos-consumidos                                               *)
(***************************************************************************)
RECURSIVE SqlSum(_)
\* SUM(calorias) over rows: no value (<<>>) over no rows
SqlSum(rows) ==
    IF rows = {} THEN <<>>
    ELSE LET e == CHOOSE x \in rows : TRUE
             rest == SqlSum(rows \ {e})
         IN  <<e.calorias + (IF rest = <<>> THEN 0 ELSE rest[1])>>

\* CaloriasConsumidas with a fault: the date is not part of the filter
CaloriasConsumidas_sin_fecha(tabla, user_id, hoy) ==
    LET total == SqlSum({e \in tabla : e.user_id = user_id})
    IN  IF total = <<>> \/ total[1] = 0 THEN 0 ELSE total[1]

\* the query of lines 367-370, `or 0` included
CaloriasConsumidas(tabla, user_id, hoy) ==
    LET total == SqlSum({e \in tabla : e.user_id = user_id /\ DateOf(e.fecha_hora) = hoy})
    IN  IF total = <<>> \/ total[1] = 0 THEN 0 ELSE total[1]

agregar_alimentos(c) ==
    IF session[c] = NoUser THEN RedirectLogin("agregar_alimentos", c, NoReq)
    ELSE
    LET user_id == session[c]
        ultimo_registro == UltimoRegistro(user_id)
        calorias_recomendadas ==
            IF ultimo_registro # <<>> THEN <<ultimo_registro[1].calorias>> ELSE <<>>
        hoy == DateOf(now)
    IN  /\ resp' = Response("agregar_alimentos", c, NoReq, "200", "",
                            [consumos |-> {e \in consumos : e.user_id = user_id},
                             calorias_recomendadas |-> calorias_recomendadas,
                             calorias_consumidas |-> CaloriasConsumidas(consumos, user_id, hoy)])
        /\ UNCHANGED <<users, registros_imc, alimentos, consumos, session, pending, now>>

(***************************************************************************)
(* Inputs.                                                                 *)
(***************************************************************************)
e_a == <<"a","@","x">>

e_A == <<" ","A","@","X">>

e_b == <<"b","@","x">>

pw_p == <<"p","1">>

pw_q == <<"q","2">>

BaseForm ==
    [nombre |-> <<"A","n","a">>, fecha_nacimiento |-> <<1990, 6, 15>>, sexo |-> <<"F">>,
     objetivo |-> <<>>, actividad |-> <<"L","i","g","e","r","o">>,
     correo |-> e_a, password |-> pw_p]

RegisterForms ==
    {[BaseForm EXCEPT !.correo = e] : e \in {e_a, e_A, e_b}}
      \cup {[BaseForm EXCEPT !.nombre = <<" ">>],
            [BaseForm EXCEPT !.fecha_nacimiento = <<1990, 2, 30>>],
            [BaseForm EXCEPT !.fecha_nacimiento = <<1990, 2, 30>>, !.correo = e_b],
            [correo |-> e_b, password |-> pw_q]}

LoginForms == {[correo |-> e, password |-> p] : e \in {e_a, e_A, e_b}, p \in {pw_p, pw_q}}

InitResp ==
    [op |-> "init", c |-> "", user |-> NoUser, req |-> NoReq,
     status |-> "", body |-> "", data |-> NoData]

InitCommon ==
    /\ registros_imc = <<>>
    /\ alimentos = <<>>
    /\ consumos = {}
    /\ session = [c \in Clients |-> NoUser]
    /\ pending = [c \in Clients |-> NoPending]
    /\ now = 0
    /\ resp = InitResp

(***************************************************************************)
(* Accounts: registration (with requests interleaving), login, logout,     *)
(* from the empty database.                                                *)
(***************************************************************************)
InitAuth ==
    /\ users = <<>>
    /\ InitCommon

NextAuth ==
    \/ \E c \in Clients, form \in RegisterForms : register_check(c, form)
    \/ \E c \in Clients : register_commit(c)
    \/ \E c \in Clients, form \in LoginForms : login(c, form)
    \/ \E c \in Clients : logout(c)
    \/ \E c \in Clients : dashboard(c)

SpecAuth == InitAuth /\ [][NextAuth]_vars

(***************************************************************************)
(* The calculator: user 1 is registered with one of several profiles and   *)
(* uses the calculator; user 2 is registered and absent.                   *)
(***************************************************************************)
Num(n) == [kind |-> "num", v |-> n]

NotANumber == [kind |-> "nan", v |-> 0]

Text == [kind |-> "text", v |-> 0]

Profile(sexo, actividad, objetivo) ==
    [BaseForm EXCEPT !.sexo = sexo, !.actividad = actividad, !.objetivo = objetivo]

CalcRegisterForms ==
    {Profile(<<"M","a","s","c","u","l","i","n","o">>, <<"S","e","d","e","n","t","a","r","i","o">>, <<>>),
     Profile(<<"M">>, <<"L","i","g","e","r","o">>,
             <<"M","a","n","t","e","n","e","r"," ","p","e","s","o">>),
     Profile(<<"F","e","m","e","n","i","n","o">>, <<"M","O","D","E","R","A","D","O">>,
             <<"G","a","n","a","r"," ","p","e","s","o">>),
     Profile(<<"F","e","m","e","n","i","n","o">>, <<"I","n","t","e","n","s","o">>,
             <<"P","e","r","d","e","r"," ","p","e","s","o">>),
     Profile(<<"O","t","r","o">>, <<"A","t","l","e","t","a">>, <<>>),
     Profile(<<"M","A","S","C","U","L","I","N","O">>, <<"m","u","y"," ","i","n","t","e","n","s","o">>,
             <<"P","E","R","D","E","R"," ","P","E","S","O">>)}

OtherForm == [BaseForm EXCEPT !.correo = e_b, !.password = pw_q]

CalcForms ==
    {[altura |-> a, peso |-> Num(70)] : a \in {Num(175), Num(0), Num(-175), NotANumber, Text}}
      \cup {[altura |-> Num(160), peso |-> Text],
            [altura |-> Num(160)],
            [objetivo |-> <<>>],
            [objetivo |-> <<" ","G","a","n","a","r"," ","P","e","s","o">>, actividad |-> <<"L","i","g","e","r","o">>],
            [actividad |-> <<>>],
            [actividad |-> <<" ","M","u","y"," ","I","n","t","e","n","s","o">>]}

CalcLoginForms == {[correo |-> e_A, password |-> p] : p \in {pw_p, pw_q}}

InitCalc ==
    /\ \E form \in CalcRegisterForms : users = <<NewUser(form), NewUser(OtherForm)>>
    /\ registros_imc = <<>>
    /\ alimentos = <<>>
    /\ consumos = {}
    /\ session = [c \in Clients |-> NoUser]
    /\ pending = [c \in Clients |-> NoPending]
    /\ now \in {0, MaxNow}
    /\ resp = InitResp

NextCalc ==
    \/ \E form \in CalcLoginForms : login("c1", form)
    \/ logout("c1")
    \/ \E form \in CalcForms : calculadora_post("c1", form)

SpecCalc == InitCalc /\ [][NextCalc]_vars

(***************************************************************************)
(* The food search: two registered users search foods and list them.       *)
(***************************************************************************)
s_pan == <<"p","a","n">>

Pan ==
    [product_name |-> <<"P","a","n">>,
     nutriments |-> ("energy-kcal_100g" :> 265) @@ ("proteins_100g" :> 9)
                      @@ ("fat_100g" :> 3) @@ ("carbohydrates_100g" :> 49)]

SinNombre == [product_name |-> <<>>, nutriments |-> ("energy-kcal_100g" :> 52)]

SinNutrientes == [image_url |-> <<"u">>]

Replies ==
    {[kind |-> "exception"],
     [kind |-> "response", ok |-> FALSE, json |-> [products |-> <<Pan>>]],
     [kind |-> "response", ok |-> TRUE, json |-> EmptyDict],
     [kind |-> "response", ok |-> TRUE, json |-> [products |-> <<>>]],
     [kind |-> "response", ok |-> TRUE, json |-> [products |-> <<Pan>>]],
     [kind |-> "response", ok |-> TRUE, json |-> [products |-> <<SinNombre, Pan>>]],
     [kind |-> "response", ok |-> TRUE, json |-> [products |-> <<SinNutrientes>>]]}

FoodRequests ==
    {<<[nombre |-> s_pan], reply>> : reply \in Replies}
      \cup {<<[nombre |-> <<" ">>], [kind |-> "exception"]>>}

LedgerLoginForms == {[correo |-> e_a, password |-> pw_p], [correo |-> e_b, password |-> pw_q]}

InitFood ==
    /\ users = <<NewUser(BaseForm), NewUser(OtherForm)>>
    /\ InitCommon

NextFood ==
    \/ \E form \in LedgerLoginForms : login("c1", form)
    \/ logout("c1")
    \/ \E r \in FoodRequests : alimentos_post("c1", r[1], r[2])
    \/ alimentos_get("c1")

SpecFood == InitFood /\ [][NextFood]_vars

(***************************************************************************)
(* The ledger: two registered users, with a BMI record and foods already   *)
(* searched, log and delete consumptions and read the summary.             *)
(***************************************************************************)
ConsumoForms ==
    {IF i = 2 THEN [alimento_id |-> i, porcion |-> <<"2"," ","u">>] ELSE [alimento_id |-> i] :
        i \in 0..4}
      \cup {[porcion |-> <<"2"," ","u">>]}

InitLedger ==
    /\ users = <<NewUser(BaseForm), NewUser(OtherForm)>>
    /\ registros_imc = <<NewRegistro(1, 0, 175, 70)>>
    /\ alimentos = <<NewAlimento(Pan, s_pan, 1), NewAlimento(SinNombre, s_pan, 2),
                     NewAlimento(SinNutrientes, s_pan, 1)>>
    /\ consumos = {}
    /\ session = [c \in Clients |-> NoUser]
    /\ pending = [c \in Clients |-> NoPending]
    /\ now = 0
    /\ resp = InitResp

NextLedger ==
    \/ \E form \in LedgerLoginForms : login("c1", form)
    \/ logout("c1")
    \/ \E form \in ConsumoForms : agregar_consumo("c1", form)
    \/ \E consumo_id \in 1..(MaxConsumos + 1) : eliminar_consumo("c1", consumo_id)
    \/ agregar_alimentos("c1")
    \/ Tick

SpecLedger == InitLedger /\ [][NextLedger]_vars

(***************************************************************************)
(* Properties.  resp is written by every action, so in a step resp'.op     *)
(* names the action taken and resp'.user the 'user_id' of the session the  *)
(* request came with.                                                      *)
(***************************************************************************)
ProtectedOps ==
    {"calculadora", "alimentos", "alimentos_get", "agregar_consumo", "eliminar_consumo",
     "agregar_alimentos", "dashboard"}

Tables == <<users, registros_imc, alimentos, consumos>>

\* C1: a request to a protected operation whose session carries no user id
\* is answered with a redirect to login, and not with an unhandled error.
C1_SinSesionRedirige ==
    (resp.op \in ProtectedOps /\ resp.user = NoUser)
        => (resp.status = "redirect" /\ resp.body = "login")

OwnedFood(a, u) == a \in 1..Len(alimentos) /\ alimentos[a].user_id = u

SnapshotOf(e, a, u) ==
    /\ e.user_id = u
    /\ e.nombre = alimentos[a].nombre
    /\ e.calorias = alimentos[a].calorias
    /\ e.proteinas = alimentos[a].proteinas
    /\ e.grasas = alimentos[a].grasas
    /\ e.carbohidratos = alimentos[a].carbohidratos

LogsConsumption(a, u) ==
    IF OwnedFood(a, u)
    THEN /\ Cardinality(consumos' \ consumos) = 1
         /\ consumos \subseteq consumos'
         /\ \A e \in consumos' \ consumos : SnapshotOf(e, a, u)
         /\ resp'.status = "200"
    ELSE /\ consumos' = consumos
         /\ resp'.status = "404"
         /\ resp'.body = "Alimento no encontrado"

\* C2 as stated: logging a consumption with a food id that does not exist or
\* belongs to another user fails with FoodNotFound and changes no
\* consumption; with a food of the user it adds exactly one consumption of
\* the user that copies the food's name and nutrients.
C2_Original ==
    [][(resp'.op = "agregar_consumo" /\ resp'.user # NoUser
          /\ "alimento_id" \in DOMAIN resp'.req)
         => LogsConsumption(resp'.req.alimento_id, resp'.user)]_vars

\* C2, amended: the same for every food id other than 0; the id 0 is
\* answered like a missing id, with status 400 "No se selecciono alimento",
\* and changes no consumption.
C2_LogConsumption ==
    [][(resp'.op = "agregar_consumo" /\ resp'.user # NoUser
          /\ "alimento_id" \in DOMAIN resp'.req)
         => IF resp'.req.alimento_id # 0
            THEN LogsConsumption(resp'.req.alimento_id, resp'.user)
            ELSE /\ consumos' = consumos
                 /\ resp'.status = "400"
                 /\ resp'.body = "No se selecciono alimento"]_vars

\* the food of the request belongs to another user and was refused, with
\* consumptions on record
C2_Witness ==
    /\ resp.op = "agregar_consumo"
    /\ resp.user # NoUser
    /\ resp.status = "404"
    /\ "alimento_id" \in DOMAIN resp.req
    /\ resp.req.alimento_id \in 1..Len(alimentos)
    /\ alimentos[resp.req.alimento_id].user_id # resp.user
    /\ consumos # {}

ValidRegisterForm(form) ==
    /\ \A k \in {"nombre", "fecha_nacimiento", "sexo", "actividad", "correo", "password"} :
          k \in DOMAIN form
    /\ strip(form.nombre) # <<>>
    /\ strip(form.sexo) # <<>>
    /\ strip(form.actividad) # <<>>
    /\ strip(form.correo) # <<>>
    /\ form.password # <<>>
    /\ strptime(form.fecha_nacimiento) # ValueError

\* C3: no two users have the same stored email, and a valid register
\* request that creates no user is answered with the DuplicateEmail error.
C3_DuplicateEmail ==
    /\ \A i, j \in 1..Len(users) : users[i].correo = users[j].correo => i = j
    /\ (resp.op = "register" /\ ValidRegisterForm(resp.req) /\ resp.status # "redirect")
          => resp.body = "Ya existe una cuenta con ese correo."

CredentialsOf(form, u) ==
    /\ u \in 1..Len(users)
    /\ users[u].correo = lower(strip(form.correo))
    /\ users[u].password = generate_password_hash(form.password)

\* C4: a login that belongs to no user (unknown email, or wrong password)
\* gets one and the same answer and binds no session; a session becomes
\* bound to u only by a login with u's normalized email and u's password.
C4_Login ==
    [][/\ (resp'.op = "login" /\ ~ \E u \in 1..Len(users) : CredentialsOf(resp'.req, u))
            => /\ session' = session
               /\ <<resp'.status, resp'.body, resp'.data>>
                    = <<"200", "Correo o contrasena incorrectos.", NoData>>
       /\ \A c \in Clients :
            (session'[c] # session[c] /\ session'[c] # NoUser)
               => /\ resp'.op = "login"
                  /\ resp'.c = c
                  /\ CredentialsOf(resp'.req, session'[c])]_vars

\* a login with a registered email and a wrong password was refused
C4_Witness ==
    /\ resp.op = "login"
    /\ resp.status = "200"
    /\ \E u \in 1..Len(users) :
          /\ users[u].correo = lower(strip(resp.req.correo))
          /\ users[u].password # generate_password_hash(resp.req.password)
    /\ session[resp.c] = NoUser

IsBMIForm(form) == "altura" \in DOMAIN form /\ "peso" \in DOMAIN form

\* C5: every BMI record has a height greater than 0, and a submission with
\* a height of 0 or less is answered with an error.
C5_AlturaPositiva ==
    /\ \A i \in 1..Len(registros_imc) : registros_imc[i].altura > 0
    /\ (resp.op = "calculadora" /\ resp.user # NoUser /\ IsBMIForm(resp.req)
          /\ resp.req.altura.kind = "num" /\ resp.req.altura.v <= 0)
          => resp.body # ""

\* C6: deleting consumption id as user u removes exactly the consumption
\* with that id owned by u and nothing else; without such a consumption it
\* changes nothing; either way it ends in the redirect, without an error.
C6_DeleteConsumption ==
    [][(resp'.op = "eliminar_consumo" /\ resp'.user # NoUser)
         => /\ consumos' = {e \in consumos :
                              ~(e.id = resp'.req.consumo_id /\ e.user_id = resp'.user)}
            /\ Cardinality(consumos \ consumos') <= 1
            /\ <<users', registros_imc', alimentos'>> = <<users, registros_imc, alimentos>>
            /\ resp'.status = "redirect"]_vars

\* the consumption of the request exists, belongs to another user, and is
\* still there after the request
C6_Witness ==
    /\ resp.op = "eliminar_consumo"
    /\ resp.user # NoUser
    /\ \E e \in consumos : e.id = resp.req.consumo_id /\ e.user_id # resp.user
    /\ \E e \in consumos : e.id # resp.req.consumo_id

OnlyFieldChanged(field) ==
    \A u \in 1..Len(users) :
        \A k \in DOMAIN users[u] : users'[u][k] # users[u][k] => (u = resp'.user /\ k = field)

\* C7: a successful BMI submission by u appends exactly one record owned by
\* u and changes no user; a goal (activity) change changes at most the goal
\* (activity) of u and adds no record; no step changes or removes a record.
C7_RegistrosInmutables ==
    [][/\ \A i \in 1..Len(registros_imc) :
            i <= Len(registros_imc') /\ registros_imc'[i] = registros_imc[i]
       /\ (resp'.op = "calculadora" /\ resp'.user # NoUser /\ IsBMIForm(resp'.req)
             /\ resp'.data # NoData)
            => /\ Len(registros_imc') = Len(registros_imc) + 1
               /\ registros_imc'[Len(registros_imc')].user_id = resp'.user
               /\ users' = users
       /\ (resp'.op = "calculadora" /\ resp'.user # NoUser /\ ~IsBMIForm(resp'.req))
            => /\ registros_imc' = registros_imc
               /\ Len(users') = Len(users)
               /\ IF "objetivo" \in DOMAIN resp'.req THEN OnlyFieldChanged("objetivo")
                  ELSE IF "actividad" \in DOMAIN resp'.req THEN OnlyFieldChanged("actividad")
                  ELSE users' = users
       /\ Len(registros_imc') <= Len(registros_imc) + 1]_vars

\* the goal of a user who has a BMI record was changed by the request
C7_Witness ==
    /\ resp.op = "calculadora"
    /\ resp.user # NoUser
    /\ "objetivo" \in DOMAIN resp.req
    /\ users[resp.user].objetivo = resp.req.objetivo
    /\ \E i \in 1..Len(registros_imc) : registros_imc[i].user_id = resp.user
    /\ \E form \in CalcRegisterForms :
          /\ users[resp.user].objetivo # NewUser(form).objetivo
          /\ users[resp.user].actividad = NewUser(form).actividad

RECURSIVE SumById(_, _, _)
\* the calories of the consumptions with an id up to k that u owns on date d
SumById(k, u, d) ==
    IF k = 0 THEN 0
    ELSE SumById(k - 1, u, d)
           + (IF \E e \in consumos : e.id = k /\ e.user_id = u /\ e.fecha_hora \div 2 = d
              THEN (CHOOSE e \in consumos : e.id = k).calorias
              ELSE 0)

\* C8: the consumed calories of the summary are the sum of the calories of
\* the consumptions the user owns whose date is the date of the request, 0
\* without any.
C8_DailyCalories ==
    (resp.op = "agregar_alimentos" /\ resp.user # NoUser)
        => resp.data.calorias_consumidas
             = SumById(IF consumos = {} THEN 0 ELSE Max({e.id : e \in consumos}),
                       resp.user, now \div 2)

\* the summary counted a consumption of today while a consumption of
\* another day or of another user, with calories, is on record
C8_Witness ==
    /\ resp.op = "agregar_alimentos"
    /\ resp.user # NoUser
    /\ resp.data.calorias_consumidas > 0
    /\ \E e \in consumos :
          /\ e.calorias > 0
          /\ (e.user_id # resp.user \/ e.fecha_hora \div 2 # now \div 2)

IsMatch(reply) ==
    /\ reply.kind = "response"
    /\ reply.ok
    /\ "products" \in DOMAIN reply.json
    /\ reply.json.products # <<>>

\* C9: a search adds exactly one food, owned by the user, when the lookup
\* returns a match; when the lookup finds nothing or fails, every record and
\* the session stay as they were and the answer is the message of the case.
C9_SearchFood ==
    [][(resp'.op = "alimentos" /\ resp'.user # NoUser
          /\ strip(resp'.req.form.nombre) # <<>>)
         => IF IsMatch(resp'.req.reply)
            THEN /\ Len(alimentos') = Len(alimentos) + 1
                 /\ SubSeq(alimentos', 1, Len(alimentos)) = alimentos
                 /\ alimentos'[Len(alimentos')].user_id = resp'.user
                 /\ <<users', registros_imc', consumos'>> = <<users, registros_imc, consumos>>
            ELSE /\ Tables' = Tables
                 /\ session' = session
                 /\ resp'.status = "200"
                 /\ resp'.body =
                      IF resp'.req.reply.kind = "exception"
                      THEN "No se pudo consultar OpenFoodFacts. Intenta mas tarde."
                      ELSE "No se encontro informacion para ese alimento."]_vars

\* the lookup failed for a user who has foods on record and is still logged in
C9_Witness ==
    /\ resp.op = "alimentos"
    /\ resp.user # NoUser
    /\ resp.req.reply.kind = "exception"
    /\ strip(resp.req.form.nombre) # <<>>
    /\ resp.body = "No se pudo consultar OpenFoodFacts. Intenta mas tarde."
    /\ session[resp.c] = resp.user
    /\ \E i \in 1..Len(alimentos) : alimentos[i].user_id = resp.user

Norm(s) == lower(strip(IF s = Null THEN <<>> ELSE s))

\* basal rate, in quarters of a kcal
MifflinStJeor(sexo, edad, peso, altura) ==
    4 * (10 * peso - 5 * edad) + 25 * altura
      + (IF Norm(sexo) \in {s_masculino, s_m} THEN 4 * 5 ELSE -(4 * 161))

ActivityFactors ==
    {<<s_sedentario, 1200>>, <<s_ligero, 1375>>, <<s_moderado, 1550>>,
     <<s_intenso, 1725>>, <<s_muy_intenso, 1900>>}

ActivityFactor(actividad) ==
    IF \E p \in ActivityFactors : p[1] = Norm(actividad)
    THEN (CHOOSE p \in ActivityFactors : p[1] = Norm(actividad))[2]
    ELSE 1200

GoalAdjustment(objetivo) ==
    IF Norm(objetivo) = s_ganar_peso THEN 500
    ELSE IF Norm(objetivo) = s_perder_peso THEN -500
    ELSE 0

\* 4000 times the estimate before rounding
EstimateDailyCalories(user, edad, peso, altura) ==
    MifflinStJeor(user.sexo, edad, peso, altura) * ActivityFactor(user.actividad)
      + 4000 * GoalAdjustment(user.objetivo)

\* k is an integer nearest to n / 4000
Nearest(k, n) == 2 * (k * 4000 - n) <= 4000 /\ 2 * (n - k * 4000) <= 4000

\* C10: the calories of a new BMI record are the estimate for the user's
\* sex, activity level and goal at the submission (basal rate times activity
\* factor plus goal adjustment, rounded to a nearest integer), and no later
\* step changes the calories of a stored record.
C10_RecommendedCalories ==
    [][/\ Len(registros_imc') > Len(registros_imc)
            => LET r == registros_imc'[Len(registros_imc')]
                   user == users[r.user_id]
                   edad == Edad(Calendar(now \div 2), user.fecha_nacimiento)
               IN  Nearest(r.calorias, EstimateDailyCalories(user, edad, r.peso, r.altura))
       /\ \A i \in 1..Len(registros_imc) :
            i <= Len(registros_imc') /\ registros_imc'[i].calorias = registros_imc[i].calorias]_vars

\* a stored record keeps calories that are no longer the estimate for the
\* profile of its user, changed since
C10_Witness ==
    \E i \in 1..Len(registros_imc) :
        LET r == registros_imc[i]
            user == users[r.user_id]
            edad == Edad(Calendar(now \div 2), user.fecha_nacimiento)
        IN  /\ r.altura > 0
            /\ ~Nearest(r.calorias, EstimateDailyCalories(user, edad, r.peso, r.altura))

====
